---- MODULE Spec2Model ----
(***************************************************************************)
(* Model of the Shopify Admin API access layer: the sliding-window rate    *)
(* limiter, the retrying _request executor, the cursor pagination walker   *)
(* (client.py), the webhook authenticator / dispatcher (handlers.py,       *)
(* routes.py) and the capability checker (capability_checker.py).          *)
(*                                                                         *)
(* Time is discrete: one second is TicksPerSecond clock ticks.  Optional   *)
(* values (Python None) are sequences of length at most one: <<>> is None  *)
(* and <<v>> is the value v.                                               *)
(***************************************************************************)
EXTENDS Integers, Sequences, FiniteSets, TLC

VARIABLES
    \* ---- ShopifyAdminClient rate limiting state and the clock
    now,              \* time.monotonic(), in ticks
    call_timestamps,  \* self._call_timestamps
    lock_locked,      \* self._rate_limit_lock._locked
    lock_waiters,     \* self._rate_limit_lock._waiters (FIFO of callers)
    cpc,              \* position of each concurrent caller of _wait_for_rate_limit
    wake,             \* wake-up time of a caller inside asyncio.sleep(wait_time)
    calls_started,    \* number of _wait_for_rate_limit calls begun (history)
    admitted,         \* every timestamp ever recorded, in order (history)
    \* ---- one logical operation of _request
    rq_pc,            \* "idle" | "running" | "asleep" | "done"
    attempt,          \* the loop variable of `for attempt in range(MAX_RETRIES)`
    script,           \* what the server/transport answers to the successive requests
    sent,             \* physical HTTP requests sent so far
    last_error,       \* local last_error (None or an error)
    outcome,          \* None while running; the value returned or the error raised
    sleeps,           \* the asyncio.sleep durations of the retry paths, in order
    first_run,        \* None, or an earlier execution kept for comparison (history)
    \* ---- one walk of _paginate
    pg_pc,            \* "idle" | "walking" | "done"
    pg_server,        \* the pages the server holds
    pg_max_pages,     \* argument max_pages
    pg_limit,         \* argument limit
    pg_params,        \* local params (a dict: function from keys to values)
    pg_all_items,     \* local all_items
    pg_page_count,    \* local page_count
    pg_requests,      \* params of every request sent, in order (history)
    pg_responses,     \* what each response carried (history)
    pg_outcome,       \* None while walking; the list returned or the error raised
    \* ---- webhook reception
    wh_secret,        \* ShopifyWebhookHandler.api_secret
    wh_handlers,      \* the topics that have a handler in _handlers
    wh_default,       \* whether _default_handler is set
    wh_pc,            \* "idle" | "verify" | "parse" | "dispatch" | "done"
    wh_req,           \* the request being processed
    wh_verdict,       \* None, or how verify_shopify_hmac ended for this request
    wh_verified,      \* raw bodies verify_shopify_hmac returned True on (history)
    wh_log,           \* parse and handler events of the current request (history)
    wh_result,        \* None, or the HTTP result of receive_webhook
    \* ---- capability checker
    utcnow,           \* datetime.utcnow(), in clock steps of HoursPerTick hours
    cap_files,        \* the files under business_memory: path -> None or the content
    cap_last,         \* the last operation of a checker and what it did (history)
    \* ---- code that creates a ShopifyAdminClient and calls it
    use_pc,           \* "idle" | "body" | "done"
    use_style,        \* "with" (async with) | "manual" (create, call, close)
    pool,             \* self._client: "none" (None) or "open" (an open AsyncClient)
    use_calls,        \* calls made by the current use
    use_log,          \* how every finished use ended and the pool it left (history)
    \* ---- ShopifyService: sync_products, sync_orders, sync_customers
    sy_pc,            \* "idle" | "items" (the item loop and the commit) | "done"
    sy_call,          \* None, or the arguments of the sync and the max_pages it asks for
    sy_raw,           \* None, or the list the client's get_* returned
    sy_items,         \* the list after `[:max]`
    sy_upserts,       \* per processed item: TRUE if _upsert_* returned, FALSE if it raised
    sy_commit,        \* "none" | "ok" | "raised": what db.commit() did
    sy_session,       \* "open" | "committed" | "rolled_back" | "broken"
    sy_result,        \* the SyncResult object of the call
    sy_returned       \* "no" | "result" (return result) | "raised" (an exception left the call)

rateVars == <<now, call_timestamps, lock_locked, lock_waiters, cpc, wake,
              calls_started, admitted>>
lockVars == <<lock_locked, lock_waiters, cpc, wake, calls_started>>
reqVars == <<rq_pc, attempt, script, sent, last_error, outcome, sleeps, first_run>>
pagVars == <<pg_pc, pg_server, pg_max_pages, pg_limit, pg_params, pg_all_items,
             pg_page_count, pg_requests, pg_responses, pg_outcome>>
whVars == <<wh_secret, wh_handlers, wh_default, wh_pc, wh_req, wh_verdict, wh_verified,
            wh_log, wh_result>>
capVars == <<utcnow, cap_files, cap_last>>
useVars == <<use_pc, use_style, pool, use_calls, use_log>>
syncVars == <<sy_pc, sy_call, sy_raw, sy_items, sy_upserts, sy_commit, sy_session,
              sy_result, sy_returned>>
vars == <<rateVars, reqVars, pagVars, whVars, capVars, useVars, syncVars>>

None == <<>>
Some(v) == <<v>>

(***************************************************************************)
(* Bounds of the model.                                                    *)
(***************************************************************************)
TicksPerSecond == 2   \* clock resolution
NumCallers == 3       \* concurrent callers sharing one client
MaxCalls == 5         \* _wait_for_rate_limit calls in one run
MaxTime == 7          \* the clock stops advancing here

(***************************************************************************)
(* Class attributes of ShopifyAdminClient.                                 *)
(***************************************************************************)
RATE_LIMIT_CALLS == 2
RATE_LIMIT_PERIOD_SECONDS == 1
RATE_LIMIT_PERIOD == RATE_LIMIT_PERIOD_SECONDS * TicksPerSecond
MAX_RETRIES == 3
RETRY_BACKOFF_BASE == 1
RETRY_BACKOFF_MAX == 30

Callers == 1..NumCallers

Min(S) == CHOOSE x \in S : \A y \in S : x <= y
Range(s) == {s[i] : i \in DOMAIN s}

(***************************************************************************)
(* _wait_for_rate_limit                                                    *)
(***************************************************************************)
\* the list comprehension that drops timestamps outside the window
InWindow(t, ts) == t - ts < RATE_LIMIT_PERIOD
Prune(tss, t) == SelectSeq(tss, LAMBDA ts : InWindow(t, ts))

\* `len(self._call_timestamps) >= self.RATE_LIMIT_CALLS`
AtLimit_off_by_one(tss) == Len(tss) > RATE_LIMIT_CALLS
AtLimit(tss) == Len(tss) >= RATE_LIMIT_CALLS

\* `wait_time = self.RATE_LIMIT_PERIOD - (now - oldest)`
WaitTime(tss, t) == RATE_LIMIT_PERIOD - (t - Min(Range(tss)))

\* whether the call suspends in asyncio.sleep(wait_time)
MustSleep(tss, t) == AtLimit(tss) /\ WaitTime(tss, t) > 0

\* lock.release(): the lock is unlocked; a woken waiter stays queued until it runs
ReleaseLock_never == lock_locked' = TRUE
ReleaseLock == lock_locked' = FALSE

\* `await asyncio.sleep(wait_time)` is inside `async with self._rate_limit_lock`
HoldLock_released == lock_locked' = FALSE
HoldLock == lock_locked' = TRUE

\* The body under the lock, from the prune to the sleep or to the append.
CriticalSection(c) ==
    LET tss == Prune(call_timestamps, now) IN
    IF MustSleep(tss, now)
    THEN /\ call_timestamps' = tss
         /\ HoldLock
         /\ cpc' = [cpc EXCEPT ![c] = "sleeping"]
         /\ wake' = [wake EXCEPT ![c] = now + WaitTime(tss, now)]
         /\ UNCHANGED admitted
    ELSE /\ call_timestamps' = Append(tss, now)
         /\ admitted' = Append(admitted, now)
         /\ ReleaseLock
         /\ cpc' = [cpc EXCEPT ![c] = "idle"]
         /\ UNCHANGED wake

\* `async with self._rate_limit_lock` finds the lock free and nobody queued
EnterFree(c) ==
    /\ cpc[c] = "idle"
    /\ calls_started < MaxCalls
    /\ ~lock_locked /\ lock_waiters = <<>>
    /\ calls_started' = calls_started + 1
    /\ CriticalSection(c)
    /\ UNCHANGED <<now, lock_waiters, reqVars, pagVars, whVars, capVars, useVars, syncVars>>

\* Lock.acquire() queues the caller behind the holder and the earlier waiters
EnterQueued(c) ==
    /\ cpc[c] = "idle"
    /\ calls_started < MaxCalls
    /\ lock_locked \/ lock_waiters # <<>>
    /\ calls_started' = calls_started + 1
    /\ lock_waiters' = Append(lock_waiters, c)
    /\ cpc' = [cpc EXCEPT ![c] = "queued"]
    /\ UNCHANGED <<now, call_timestamps, lock_locked, wake, admitted,
                   reqVars, pagVars, whVars, capVars, useVars, syncVars>>

\* the first waiter is woken by release() and takes the lock
Resume(c) ==
    /\ ~lock_locked
    /\ lock_waiters # <<>> /\ Head(lock_waiters) = c
    /\ lock_waiters' = Tail(lock_waiters)
    /\ CriticalSection(c)
    /\ UNCHANGED <<now, calls_started, reqVars, pagVars, whVars, capVars, useVars, syncVars>>

\* asyncio.sleep(wait_time) is over: record the call and leave the lock
WakeRecord(c) ==
    /\ cpc[c] = "sleeping"
    /\ now >= wake[c]
    /\ call_timestamps' = Append(call_timestamps, now)
    /\ admitted' = Append(admitted, now)
    /\ ReleaseLock
    /\ cpc' = [cpc EXCEPT ![c] = "idle"]
    /\ UNCHANGED <<now, lock_waiters, wake, calls_started, reqVars, pagVars, whVars, capVars, useVars, syncVars>>

Tick ==
    /\ now < MaxTime
    /\ now' = now + 1
    /\ UNCHANGED <<call_timestamps, lockVars, admitted, reqVars, pagVars, whVars, capVars, useVars, syncVars>>

InitClock ==
    /\ now = 0
    /\ call_timestamps = <<>>
    /\ admitted = <<>>

InitLock ==
    /\ lock_locked = FALSE
    /\ lock_waiters = <<>>
    /\ cpc = [c \in Callers |-> "idle"]
    /\ wake = [c \in Callers |-> 0]
    /\ calls_started = 0

InitReqIdle ==
    /\ rq_pc = "idle" /\ attempt = 0 /\ script = <<>> /\ sent = 0
    /\ last_error = None /\ outcome = None /\ sleeps = <<>>
    /\ first_run = None

InitPagIdle ==
    /\ pg_pc = "idle" /\ pg_server = <<>> /\ pg_max_pages = None
    /\ pg_limit = 0 /\ pg_params = <<>> /\ pg_all_items = <<>> /\ pg_page_count = 0
    /\ pg_requests = <<>> /\ pg_responses = <<>> /\ pg_outcome = None

InitWhIdle ==
    /\ wh_secret = "" /\ wh_handlers = {} /\ wh_default = FALSE
    /\ wh_pc = "idle" /\ wh_req = None /\ wh_verdict = None
    /\ wh_verified = {} /\ wh_log = <<>> /\ wh_result = None

\* _get_profile_path: `self.storage_path / self.tenant_id / "shopify_capabilities.json"`
Tenants == {"tenant_a"}
GetProfilePath(tenant_id) == <<"business_memory", tenant_id, "shopify_capabilities.json">>
ProfilePaths == {GetProfilePath(tenant_id) : tenant_id \in Tenants}

\* no operation of a capability checker has run yet
NoOperation ==
    [op |-> "none", tenant_id |-> "", shop_domain |-> "", max_age_hours |-> 0, at |-> 0,
     found |-> None, returned |-> None, probe |-> None, wrote |-> FALSE,
     prev_cached |-> FALSE, same_as_prev |-> FALSE]

InitCapIdle ==
    /\ utcnow = 0
    /\ cap_files = [path \in ProfilePaths |-> None]
    /\ cap_last = NoOperation

\* no client has been created yet
InitUseIdle ==
    /\ use_pc = "idle" /\ use_style = "with" /\ pool = "none"
    /\ use_calls = 0 /\ use_log = <<>>

\* SyncResult(sync_type=..., status=..., started_at=...): the other fields
\* take their defaults; errors is kept by its length
SyncResult(sync_type, status) ==
    [sync_type |-> sync_type, status |-> status, items_synced |-> 0,
     items_failed |-> 0, errors |-> 0, completed |-> FALSE]

\* no sync has been called yet
InitSyncIdle ==
    /\ sy_pc = "idle" /\ sy_call = None /\ sy_raw = None /\ sy_items = <<>>
    /\ sy_upserts = <<>> /\ sy_commit = "none" /\ sy_session = "open"
    /\ sy_result = SyncResult("none", "pending") /\ sy_returned = "no"

InitRate == InitClock /\ InitLock /\ InitUseIdle /\ InitSyncIdle /\ InitReqIdle /\ InitPagIdle /\ InitWhIdle /\ InitCapIdle

NextRate ==
    \/ \E c \in Callers : EnterFree(c)
    \/ \E c \in Callers : EnterQueued(c)
    \/ \E c \in Callers : Resume(c)
    \/ \E c \in Callers : WakeRecord(c)
    \/ Tick

SpecRate == InitRate /\ [][NextRate]_vars

\* admissions recorded in the trailing window (t - RATE_LIMIT_PERIOD, t]
AdmittedInWindow(t) ==
    Cardinality({i \in DOMAIN admitted :
                    admitted[i] <= t /\ t - admitted[i] < RATE_LIMIT_PERIOD})

\* C1: whatever the interleaving of the callers, at most RATE_LIMIT_CALLS
\* recorded admissions fall in any trailing window of length RATE_LIMIT_PERIOD.
C1_QuotaPerWindow ==
    \A t \in 0..MaxTime : AdmittedInWindow(t) <= RATE_LIMIT_CALLS

\* a burst: more calls begun than the quota, a caller made to sleep for the
\* window and admitted afterwards, others still queued behind it
C1_Witness ==
    /\ Len(admitted) > RATE_LIMIT_CALLS
    /\ calls_started = MaxCalls
    /\ \E i \in DOMAIN admitted : i > RATE_LIMIT_CALLS
          /\ admitted[i] - admitted[i - RATE_LIMIT_CALLS] = RATE_LIMIT_PERIOD
    /\ lock_waiters # <<>>

\* the callers between the prune and the append of their own timestamp
InSection == {c \in Callers : cpc[c] = "sleeping"}

\* C17: at most one caller at a time is between the prune and the append; the
\* lock is held for as long as it is there, and the list it decided on is
\* still the one it pruned (its wake-up time is that list's oldest entry
\* plus the period), so nobody else has pruned or appended meanwhile.
C17_AtomicCriticalSection ==
    /\ Cardinality(InSection) <= 1
    /\ \A c \in InSection :
          /\ lock_locked
          /\ AtLimit(call_timestamps)
          /\ wake[c] = Min(Range(call_timestamps)) + RATE_LIMIT_PERIOD
          /\ \A i \in DOMAIN call_timestamps : call_timestamps[i] + RATE_LIMIT_PERIOD >= wake[c]

\* a caller sleeps under the lock while two others wait for it
C17_Witness ==
    /\ InSection # {}
    /\ Len(lock_waiters) >= 2
    /\ \E c \in InSection : now < wake[c]

\* Time also passes beyond MaxTime while a caller is inside asyncio.sleep.
SleepTick ==
    /\ now >= MaxTime
    /\ \E c \in Callers : cpc[c] = "sleeping" /\ now < wake[c]
    /\ now' = now + 1
    /\ UNCHANGED <<call_timestamps, lockVars, admitted, reqVars, pagVars, whVars, capVars, useVars, syncVars>>

NextRateLive == NextRate \/ SleepTick

\* The event loop runs every task that is ready (a woken waiter, a sleeper
\* whose delay is over) and the clock advances.
SpecRateLive ==
    /\ InitRate /\ [][NextRateLive]_vars
    /\ WF_vars(Tick \/ SleepTick)
    /\ \A c \in Callers : WF_vars(Resume(c)) /\ WF_vars(WakeRecord(c))

\* C18: every caller that has entered _wait_for_rate_limit and is queued for
\* the lock or asleep under it eventually records its timestamp and returns.
C18_NoStarvation ==
    \A c \in Callers : (cpc[c] # "idle") ~> (cpc[c] = "idle")

\* every call begun was admitted, the last one a full period after the quota
\* before it, with all the callers competing
C18_Witness ==
    /\ calls_started = MaxCalls /\ Len(admitted) = MaxCalls
    /\ \A c \in Callers : cpc[c] = "idle"
    /\ admitted[MaxCalls] - admitted[1] >= RATE_LIMIT_PERIOD

\* C19: _call_timestamps never holds more than RATE_LIMIT_CALLS timestamps.
C19_BudgetSizeWithinQuota ==
    Len(call_timestamps) <= RATE_LIMIT_CALLS

(***************************************************************************)
(* Cancellation of a task inside _wait_for_rate_limit.  CancelledError is  *)
(* delivered at the await the task is suspended in: Lock.acquire() or      *)
(* asyncio.sleep(wait_time).  A cancelled task makes no further call.      *)
(***************************************************************************)
\* CancelledError leaves the `async with` block: __aexit__ releases the lock
ExitOnCancel_held == lock_locked' = TRUE
ExitOnCancel == ReleaseLock

\* cancelled in Lock.acquire(): the waiter is taken out of the queue
CancelQueued(c) ==
    /\ cpc[c] = "queued"
    /\ lock_waiters' = SelectSeq(lock_waiters, LAMBDA w : w # c)
    /\ cpc' = [cpc EXCEPT ![c] = "cancelled"]
    /\ UNCHANGED <<now, call_timestamps, lock_locked, wake, calls_started, admitted,
                   reqVars, pagVars, whVars, capVars, useVars, syncVars>>

\* cancelled in asyncio.sleep(wait_time): line 193 is not reached
CancelSleeping(c) ==
    /\ cpc[c] = "sleeping"
    /\ ExitOnCancel
    /\ cpc' = [cpc EXCEPT ![c] = "cancelled"]
    /\ UNCHANGED <<now, call_timestamps, lock_waiters, wake, calls_started, admitted,
                   reqVars, pagVars, whVars, capVars, useVars, syncVars>>

NextCancel ==
    \/ NextRate
    \/ \E c \in Callers : CancelQueued(c)
    \/ \E c \in Callers : CancelSleeping(c)

SpecCancel == InitRate /\ [][NextCancel]_vars

\* the callers suspended inside _wait_for_rate_limit, and the cancelled ones
Suspended == {c \in Callers : cpc[c] \in {"queued", "sleeping"}}
Cancelled == {c \in Callers : cpc[c] = "cancelled"}

\* C27: after a cancellation the lock is not left held (it is held only by a
\* task asleep under it), no cancelled task stays in the queue of the lock,
\* and _call_timestamps holds only timestamps of completed admissions: as
\* many calls were recorded as were started and neither suspended nor
\* cancelled.
C27_CancelLeavesNoBudget ==
    /\ lock_locked => \E c \in Callers : cpc[c] = "sleeping"
    /\ \A c \in Callers : (c \in Range(lock_waiters)) <=> (cpc[c] = "queued")
    /\ Len(admitted) = calls_started - Cardinality(Suspended \cup Cancelled)
    /\ Range(call_timestamps) \subseteq Range(admitted)

\* one task was cancelled asleep under the lock, another in the queue, and a
\* call made afterwards was admitted
C27_Witness ==
    /\ \E c, d \in Cancelled : c # d /\ wake[c] > 0 /\ wake[d] = 0
    /\ ~lock_locked /\ lock_waiters = <<>>
    /\ Len(admitted) = MaxCalls - 2
    /\ \E c \in Cancelled : admitted[Len(admitted)] >= wake[c]

(***************************************************************************)
(* _wait_for_rate_limit as run by a single caller (no contention for the   *)
(* lock): the time at which the call is recorded and the list afterwards.  *)
(* asyncio.sleep(wait_time) is taken to last exactly wait_time.            *)
(***************************************************************************)
SoloAdmitTime(tss, t) ==
    LET p == Prune(tss, t) IN IF MustSleep(p, t) THEN t + WaitTime(p, t) ELSE t
SoloAdmitList(tss, t) == Append(Prune(tss, t), SoloAdmitTime(tss, t))

\* the effect of one `await self._wait_for_rate_limit()` on the client
SoloAdmit_skipped == UNCHANGED <<call_timestamps, admitted>>
SoloAdmit ==
    /\ call_timestamps' = SoloAdmitList(call_timestamps, now)
    /\ admitted' = Append(admitted, SoloAdmitTime(call_timestamps, now))

(***************************************************************************)
(* _request: responses, outcomes                                           *)
(***************************************************************************)
MaxBurst == 10   \* longest run of identical responses before a 200

RetryAfterHeaders == {"1", "60", "inf", "abc"}

\* float("inf"): larger than every delay and every time of the model
Infinity == 1000000

\* float(header): the seconds, or None when float() raises ValueError
FloatOf(s) ==
    CASE s = "1" -> Some(1)
      [] s = "60" -> Some(60)
      [] s = "inf" -> Some(Infinity)
      [] OTHER -> None

\* the body of a response: a JSON object with an 'errors' key, a JSON object
\* without one, no content, or content that is not JSON
ResponseBodies == {"json_errors", "json", "empty", "html"}

\* X-Shopify-Shop-Api-Call-Limit: "" stands for the absent header
\* (`response.headers.get(..., "")`)
CallLimitHeaders == {"", "32/40", "40", "abc/def"}

Http(s) ==
    [kind |-> "http", status |-> s, retry_after |-> None,
     body |-> "json", call_limit |-> "32/40"]
TooMany(h) == [Http(429) EXCEPT !.retry_after = h]
TimeoutException ==
    [kind |-> "timeout", status |-> 0, retry_after |-> None,
     body |-> "empty", call_limit |-> ""]
RequestError ==
    [kind |-> "reqerror", status |-> 0, retry_after |-> None,
     body |-> "empty", call_limit |-> ""]

Statuses == {200, 201, 204, 400, 401, 403, 404, 500, 503}
Resp ==
    {Http(s) : s \in Statuses}
    \cup {TooMany(None)} \cup {TooMany(Some(h)) : h \in RetryAfterHeaders}
    \cup {TimeoutException, RequestError}

\* the HTTP responses with every body and every Call-Limit header
AnyResp ==
    {[r EXCEPT !.body = b, !.call_limit = c] :
        r \in {Http(s) : s \in Statuses \cup {302}} \cup {TooMany(None)}
                \cup {TooMany(Some(h)) : h \in RetryAfterHeaders},
        b \in ResponseBodies, c \in CallLimitHeaders}

\* the attempts that may precede the response under study
Prefixes ==
    {<<>>, <<Http(500)>>, <<TimeoutException>>, <<TooMany(Some("1"))>>,
     <<Http(503), RequestError>>}

\* n times the response r, then a 200
Burst(r, n) == [i \in 1..(n + 1) |-> IF i <= n THEN r ELSE Http(200)]

Scripts ==
    [1..MAX_RETRIES -> Resp]
    \cup {Burst(r, n) : r \in {TooMany(None), TooMany(Some("1")), Http(500)}, n \in 0..MaxBurst}
    \cup {Append(p, r) : p \in Prefixes, r \in AnyResp}

Return(v) ==
    [kind |-> "return", value |-> v, exc |-> "", msg |-> "", of_attempt |-> None,
     status_code |-> None, response_body |-> None, reason |-> None]
Raise(e, m, k) ==
    [kind |-> "raise", value |-> <<>>, exc |-> e, msg |-> m, of_attempt |-> k,
     status_code |-> None, response_body |-> None, reason |-> None]

\* an exception built with status_code= and response_body=; why is the text
\* interpolated into the message after the fixed part m
RaiseStatus(e, m, why, s, b) ==
    [Raise(e, m, None) EXCEPT !.status_code = Some(s), !.response_body = b,
                              !.reason = why]

\* response.json() of the i-th response, and the {} returned for a 204
JsonBody(i) == <<"json", i>>
EmptyPayload == <<"empty">>

\* `used, max_limit = limit_header.split("/"); return int(used), int(max_limit)`
\* when the header holds a "/", else (0, 40); None when int() raises ValueError
ParseRateLimitHeaders(r) ==
    CASE r.call_limit = "32/40" -> Some(<<32, 40>>)
      [] r.call_limit \in {"", "40"} -> Some(<<0, 40>>)
      [] OTHER -> None

\* response.json(): the parsed object, None when it raises JSONDecodeError
ResponseJson(r) ==
    IF r.body \in {"json", "json_errors"} THEN Some(<<"parsed", r.body>>) ELSE None

\* `response.json() if response.content else {}`
ErrorBody(r) == IF r.body = "empty" THEN Some(EmptyPayload) ELSE ResponseJson(r)

\* `error_body.get('errors', default)`: the server's reason when the body has one
ErrorsOf(r, default) == IF r.body = "json_errors" THEN "errors of the body" ELSE default

JSONDecodeError == Raise("JSONDecodeError", "Expecting value", None)

\* `response.status_code >= 500`
IsServerError(s) == s >= 500

\* `min(self.RETRY_BACKOFF_BASE * (2 ** attempt), self.RETRY_BACKOFF_MAX)`, in seconds
Backoff_constant(k) == RETRY_BACKOFF_BASE
Backoff(k) ==
    LET e == RETRY_BACKOFF_BASE * (2 ^ k)
    IN IF e < RETRY_BACKOFF_MAX THEN e ELSE RETRY_BACKOFF_MAX

\* `float(response.headers.get("Retry-After", 2.0))`
RetryAfterDefault == 2
RetryAfter_none(r) == Some(0)
RetryAfter(r) ==
    IF r.retry_after = None THEN Some(RetryAfterDefault) ELSE FloatOf(r.retry_after[1])

\* the loop variable after an iteration that ended in `continue` or in an
\* except clause: the for statement advances it
NextAttempt_same(k) == k
NextAttempt(k) == k + 1

\* the except clauses: last_error after a transport exception on attempt k
TransportError(r, k) ==
    IF r.kind = "timeout"
    THEN Raise("ShopifyAPIError", "Request timeout", Some(k))
    ELSE Raise("ShopifyAPIError", "Request error", Some(k))

\* last_error after a 5xx response: the branch sleeps and continues
LastErrorAfter5xx(err, r, k) == err

\* `raise last_error or ShopifyAPIError("Request failed after all retries")`
Exhausted(err) ==
    IF err # None THEN err[1]
    ELSE Raise("ShopifyAPIError", "Request failed after all retries", None)

\* the statuses whose branch raises at once: 401, 403, 404 and the else branch
TerminalError(r) ==
    CASE r.status = 404 ->
             [Raise("ShopifyNotFoundError", "Resource not found", None)
                 EXCEPT !.status_code = Some(404)]
      [] r.status # 404 /\ ErrorBody(r) = None -> JSONDecodeError
      [] r.status = 401 /\ ErrorBody(r) # None ->
             RaiseStatus("ShopifyAuthError", "Invalid or expired access token",
                         None, 401, ErrorBody(r))
      [] r.status = 403 /\ ErrorBody(r) # None ->
             RaiseStatus("ShopifyAuthError", "Access forbidden",
                         Some(ErrorsOf(r, "Insufficient permissions")), 403, ErrorBody(r))
      [] OTHER ->
             RaiseStatus("ShopifyAPIError", "API error",
                         Some(ErrorsOf(r, "response.text")), r.status, ErrorBody(r))

\* the iteration sleeps d seconds and goes on to the next attempt
RetryAfterSleep(d, t, err) ==
    /\ sleeps' = Append(sleeps, d)
    /\ now' = t + d * TicksPerSecond
    /\ attempt' = NextAttempt(attempt)
    /\ last_error' = err
    /\ UNCHANGED <<rq_pc, outcome>>

\* asyncio.sleep(float("inf")): the timer never fires, the iteration stays
\* suspended in the sleep
SleepForever(t) ==
    /\ rq_pc' = "asleep"
    /\ now' = t
    /\ UNCHANGED <<attempt, last_error, outcome, sleeps>>

\* the iteration leaves _request with the result or the exception o
Finish(o, t) ==
    /\ outcome' = Some(o)
    /\ rq_pc' = "done"
    /\ now' = t
    /\ UNCHANGED <<attempt, last_error, sleeps>>

\* One iteration of the retry loop: admission, the request, the branch taken.
RequestAttempt ==
    /\ rq_pc = "running"
    /\ attempt < MAX_RETRIES
    /\ sent < Len(script)
    /\ SoloAdmit
    /\ sent' = sent + 1
    /\ LET r == script[sent + 1]
           t == SoloAdmitTime(call_timestamps, now)
       IN  IF r.kind # "http"
           THEN RetryAfterSleep(Backoff(attempt), t, Some(TransportError(r, attempt)))
           ELSE IF ParseRateLimitHeaders(r) = None
           THEN Finish(Raise("ValueError", "invalid literal for int()", None), t)
           ELSE
           CASE r.status \in {200, 201} ->
                  IF ResponseJson(r) = None
                  THEN Finish(JSONDecodeError, t)
                  ELSE Finish(Return(JsonBody(sent + 1)), t)
             [] r.status = 204 ->
                  Finish(Return(EmptyPayload), t)
             [] r.status = 429 ->
                  IF RetryAfter(r) = None
                  THEN Finish(Raise("ValueError", "could not convert string to float", None), t)
                  ELSE IF RetryAfter(r)[1] = Infinity
                  THEN SleepForever(t)
                  ELSE RetryAfterSleep(RetryAfter(r)[1], t, last_error)
             [] r.status \in {401, 403, 404} ->
                  Finish(TerminalError(r), t)
             [] r.status \notin {200, 201, 204, 429, 401, 403, 404}
                  /\ IsServerError(r.status) ->
                  RetryAfterSleep(Backoff(attempt), t,
                                  LastErrorAfter5xx(last_error, r, attempt))
             [] OTHER ->
                  Finish(TerminalError(r), t)
    /\ UNCHANGED <<script, first_run, lockVars, pagVars, whVars, capVars, useVars, syncVars>>

\* the loop ran out of attempts: line 338
RequestExhausted ==
    /\ rq_pc = "running"
    /\ attempt >= MAX_RETRIES
    /\ outcome' = Some(Exhausted(last_error))
    /\ rq_pc' = "done"
    /\ UNCHANGED <<attempt, script, sent, last_error, sleeps, first_run, rateVars, pagVars, whVars,
                   capVars, useVars, syncVars>>

InitRequest ==
    /\ InitClock /\ InitLock /\ InitUseIdle /\ InitSyncIdle /\ InitPagIdle /\ InitWhIdle /\ InitCapIdle
    /\ script \in Scripts
    /\ rq_pc = "running" /\ attempt = 0 /\ sent = 0
    /\ last_error = None /\ outcome = None /\ sleeps = <<>>
    /\ first_run = None

NextRequest == RequestAttempt \/ RequestExhausted

SpecRequest == InitRequest /\ [][NextRequest]_vars

\* the responses received so far
AllReceived(P(_)) == \A i \in 1..sent : P(script[i])
IsTransient(r) == r.kind # "http" \/ (r.status >= 500)
Succeeded == outcome # None /\ outcome[1].kind = "return"
Raised == outcome # None /\ outcome[1].kind = "raise"

\* C2: a 429 is retried without counting against the attempt cap: an operation
\* answered by up to MaxBurst consecutive 429s and then a 200 returns the body
\* of that 200.
C2_RateLimitedNotCapped ==
    \A n \in 0..MaxBurst : \A h \in {None, Some("1")} :
        (script = Burst(TooMany(h), n) /\ rq_pc = "done")
            => outcome = Some(Return(JsonBody(n + 1)))

\* C3: an operation whose attempts all end in a 5xx response or a transport
\* error sends at most MAX_RETRIES requests, never succeeds and can only end
\* by raising; when every attempt went through the retry path (the loop
\* advanced after each request) it ends after exactly MAX_RETRIES requests
\* with a ShopifyAPIError.
C3_TransientCapped ==
    AllReceived(IsTransient) =>
        /\ sent <= MAX_RETRIES
        /\ ~Succeeded
        /\ rq_pc = "done" => Raised
        /\ (rq_pc = "done" /\ attempt = sent) =>
               (sent = MAX_RETRIES /\ outcome[1].exc = "ShopifyAPIError")

\* ten consecutive 500s: three requests were sent and the operation raised
C3_Witness ==
    /\ script = Burst(Http(500), MaxBurst)
    /\ rq_pc = "done" /\ sent = MAX_RETRIES /\ Raised

\* what the error of a failed attempt says about its cause
CauseOf(r) ==
    CASE r.kind = "timeout" -> "Request timeout"
      [] r.kind = "reqerror" -> "Request error"
      [] OTHER -> "Server error"

\* C4: when the retries are exhausted by transient failures, the error raised
\* is the error of the last failed attempt.
C4_LastErrorSurfaced ==
    (rq_pc = "done" /\ Raised /\ sent > 0 /\ AllReceived(IsTransient)) =>
        /\ outcome[1].of_attempt = Some(sent - 1)
        /\ outcome[1].msg = CauseOf(script[sent])

\* the response of the latest attempt
Received(ss) == sent > 0 /\ script[sent].kind = "http" /\ script[sent].status \in ss
WellFormed(r) == ParseRateLimitHeaders(r) # None /\ r.body \in {"json", "json_errors"}

\* C21: a 401, 403 or 404 response ends the operation on that attempt with
\* ShopifyAuthError (401, 403) or ShopifyNotFoundError (404); the 403 error
\* carries the 'errors' value of the body when there is one; the attempt is
\* followed by no sleep and no further request.
C21_AuthAndNotFoundTerminal ==
    Received({401, 403, 404}) =>
        /\ rq_pc = "done" /\ Raised
        /\ outcome[1].exc =
               (IF script[sent].status = 404 THEN "ShopifyNotFoundError"
                                             ELSE "ShopifyAuthError")
        /\ outcome[1].status_code = Some(script[sent].status)
        /\ (script[sent].status = 403 /\ script[sent].body = "json_errors") =>
               outcome[1].reason = Some("errors of the body")
        /\ Len(sleeps) = sent - 1

\* C22: a 200 or 201 response makes the operation return the parsed body of
\* that response, a 204 makes it return {}; the operation is then over, so a
\* success response is never followed by another attempt.
C22_SuccessReturnsAndEnds ==
    /\ Received({200, 201}) => (rq_pc = "done" /\ outcome = Some(Return(JsonBody(sent))))
    /\ Received({204}) => (rq_pc = "done" /\ outcome = Some(Return(EmptyPayload)))
    /\ \A i \in 1..(sent - 1) :
           ~(script[i].kind = "http" /\ script[i].status \in {200, 201, 204})

\* the statuses with a branch of their own
Handled(s) == s \in {200, 201, 204, 429, 401, 403, 404} \/ IsServerError(s)

\* C23: a response with any other status (400, 302, ...) ends the operation on
\* that attempt with a ShopifyAPIError that carries the status code and the
\* body of the response; no sleep and no further request follow.
C23_OtherStatusTerminal ==
    (sent > 0 /\ script[sent].kind = "http" /\ ~Handled(script[sent].status)) =>
        /\ rq_pc = "done" /\ Raised
        /\ outcome[1].exc = "ShopifyAPIError"
        /\ outcome[1].status_code = Some(script[sent].status)
        /\ outcome[1].response_body # None
        /\ script[sent].body # "empty" =>
               outcome[1].response_body = Some(<<"parsed", script[sent].body>>)
        /\ Len(sleeps) = sent - 1

\* the exception classes of the client: ShopifyAPIError and its subclasses
Taxonomy ==
    {"ShopifyAPIError", "ShopifyAuthError", "ShopifyNotFoundError", "ShopifyRateLimitError"}

\* C24: whatever the responses and transport exceptions, an operation that
\* fails raises a ShopifyAPIError or one of its subclasses.
C24_ClosedTaxonomy ==
    Raised => outcome[1].exc \in Taxonomy

\* the attempts (1-based) that were followed by a backoff sleep: every sleep
\* follows the request of the same position
BackoffSleeps == {i \in 1..Len(sleeps) : IsTransient(script[i])}

\* C25: the sleep after the k-th attempt (k counted from 0) that ended in a 5xx
\* response or a transport error lasts min(RETRY_BACKOFF_BASE * 2^k,
\* RETRY_BACKOFF_MAX) seconds, and the backoff sleeps of one operation never
\* get shorter.
C25_BackoffDelay ==
    /\ Len(sleeps) = attempt /\ Len(sleeps) <= sent
    /\ \A i \in BackoffSleeps :
           sleeps[i] = Min({RETRY_BACKOFF_BASE * 2 ^ (i - 1), RETRY_BACKOFF_MAX})
    /\ \A i, j \in BackoffSleeps : i <= j => sleeps[i] <= sleeps[j]

\* three transient failures in a row were each followed by a longer sleep
C25_Witness ==
    /\ Len(sleeps) = MAX_RETRIES /\ BackoffSleeps = 1..MAX_RETRIES
    /\ sleeps[1] < sleeps[2] /\ sleeps[2] < sleeps[MAX_RETRIES]

\* the seconds asked for by the i-th response, a 429: its Retry-After, or 2
Asked(i) ==
    IF script[i].retry_after = None THEN 2
    ELSE FloatOf(script[i].retry_after[1])[1]

\* the 429 responses that were followed by another request; admitted[i] is
\* the time request i was sent and its response received
Retried429 ==
    {i \in 1..(Len(admitted) - 1) :
        script[i].kind = "http" /\ script[i].status = 429}

\* C26: the request that follows a 429 is sent no earlier than Retry-After
\* seconds after that 429; without the header the sleep lasts 2 seconds.
C26_RetryAfterHonoured ==
    \A i \in Retried429 :
        /\ admitted[i + 1] >= admitted[i] + Asked(i) * TicksPerSecond
        /\ script[i].retry_after = None => sleeps[i] = 2

\* a 429 with Retry-After: 60 and a 429 without the header were both retried
C26_Witness ==
    \E i, j \in Retried429 :
        script[i].retry_after = Some("60") /\ script[j].retry_after = None

(***************************************************************************)
(* Two executions of _request on a fresh client against servers whose      *)
(* answers differ only in X-Shopify-Shop-Api-Call-Limit: the first is      *)
(* kept in first_run, the second starts from the same initial state.       *)
(***************************************************************************)
SameButCallLimit(s1, s2) ==
    /\ Len(s1) = Len(s2)
    /\ \A i \in 1..Len(s1) : [s1[i] EXCEPT !.call_limit = ""] = [s2[i] EXCEPT !.call_limit = ""]

Execution == [script |-> script, outcome |-> outcome, admitted |-> admitted, sleeps |-> sleeps]

SecondExecution ==
    /\ rq_pc = "done" /\ first_run = None
    /\ first_run' = Some(Execution)
    /\ \E s \in Scripts : SameButCallLimit(script, s) /\ script' = s
    /\ rq_pc' = "running" /\ attempt' = 0 /\ sent' = 0
    /\ last_error' = None /\ outcome' = None /\ sleeps' = <<>>
    /\ now' = 0 /\ call_timestamps' = <<>> /\ admitted' = <<>>
    /\ UNCHANGED <<lockVars, pagVars, whVars, capVars, useVars, syncVars>>

NextTwoExecutions == NextRequest \/ SecondExecution

SpecTwoExecutions == InitRequest /\ [][NextTwoExecutions]_vars

\* C29: two executions whose responses differ only in the Call-Limit header
\* (well-formed, absent or malformed) admit their requests at the same times
\* and end with the same result or the same error.
C29_CallLimitInformational ==
    (first_run # None /\ rq_pc = "done") =>
        /\ outcome = first_run[1].outcome
        /\ admitted = first_run[1].admitted

\* how long request i waited in _wait_for_rate_limit, in ticks: from the end
\* of the previous iteration's sleep (or from the start) to its admission
AdmissionWait(i) ==
    IF i = 1 THEN admitted[1]
    ELSE admitted[i] - (admitted[i - 1] + sleeps[i - 1] * TicksPerSecond)

\* C30: every wait of an operation is bounded by a constant of the client:
\* an admission wait by RATE_LIMIT_PERIOD, a sleep of the retry paths (after
\* a 5xx, a transport error or a 429) by RETRY_BACKOFF_MAX seconds.
C30_WaitsBounded ==
    /\ \A i \in 1..Len(admitted) : AdmissionWait(i) <= RATE_LIMIT_PERIOD
    /\ \A i \in 1..Len(sleeps) : sleeps[i] <= RETRY_BACKOFF_MAX

\* C34: whatever the responses and transport errors, an operation sends at
\* most MAX_RETRIES requests and does not stay suspended: each response it
\* receives either ends it or advances the loop, so that it returns or raises
\* within MAX_RETRIES iterations.
C34_BoundedAttemptsAndEnds ==
    /\ sent <= MAX_RETRIES /\ attempt <= MAX_RETRIES
    /\ rq_pc \in {"running", "done"}
    /\ rq_pc = "running" => attempt = sent
    /\ rq_pc = "done" <=> outcome # None

(***************************************************************************)
(* _paginate                                                               *)
(***************************************************************************)
MaxPages == 3    \* pages a server holds
MaxCap == 2      \* largest max_pages argument
SmallPage == 2   \* items of a small non-empty page
PAGE_LIMIT == 250       \* `min(limit, 250)`
LastPageItems == 17     \* the short last page of the 250, 250, 17 scenario

FilterKeys == {"status", "ids"}
Limits == {50, PAGE_LIMIT, 1000}

\* a Link header is a sequence of parts `<url>; rel="..."`; page_info is the
\* value of the url's page_info query parameter, None when it is absent or blank
LinkPart(rel, c) == [rel |-> rel, page_info |-> c]

\* _parse_link_header: the page_info of the first rel="next" part that has one
RECURSIVE ParseLinkHeader(_)
ParseLinkHeader(link) ==
    IF link = <<>> THEN None
    ELSE IF Head(link).rel = "next" /\ Head(link).page_info # None
         THEN Head(link).page_info
         ELSE ParseLinkHeader(Tail(link))

\* the items of page i are told apart by page and position
PageItems(i, n) == [k \in 1..n |-> <<i, k>>]
Page(s, i, n, link) == [status |-> s, items |-> PageItems(i, n), link |-> link]

\* cursors are the index of the page they lead to
NextLinks(i) ==
    {<<LinkPart("next", Some(i + 1))>>,
     <<LinkPart("previous", Some(i - 1)), LinkPart("next", Some(i + 1))>>}
LastLinks(i) ==
    {<<>>, <<LinkPart("previous", Some(i - 1))>>, <<LinkPart("next", None)>>}

ContinuingPages(i) == {Page(200, i, n, l) : n \in {0, SmallPage}, l \in NextLinks(i)}
FinalPages(i) ==
    {Page(200, i, n, l) : n \in {0, SmallPage}, l \in LastLinks(i)}
    \cup {Page(s, i, 0, <<>>) : s \in {401, 403, 404, 429, 500}}

\* a server holds a chain of pages, each but the last leading to the next one
Servers ==
    UNION {{srv \in [1..n -> UNION {ContinuingPages(i) \cup FinalPages(i) : i \in 1..n}] :
              /\ \A i \in 1..(n - 1) : srv[i] \in ContinuingPages(i)
              /\ srv[n] \in FinalPages(n)} : n \in 1..MaxPages}

\* pages of 250, 250 and 17 items, cursors on the first two
BigServer ==
    <<Page(200, 1, PAGE_LIMIT, <<LinkPart("next", Some(2))>>),
      Page(200, 2, PAGE_LIMIT, <<LinkPart("next", Some(3))>>),
      Page(200, 3, LastPageItems, <<>>)>>

\* the page the server answers a request with
ServerPage(srv, params) ==
    IF "page_info" \in DOMAIN params THEN srv[params["page_info"]] ELSE srv[1]

\* `params = params or {}; params["limit"] = min(limit, 250)`
Min2(a, b) == IF a < b THEN a ELSE b
FirstParams(params, limit) ==
    [k \in DOMAIN params \cup {"limit"} |->
        IF k = "limit" THEN Min2(limit, PAGE_LIMIT) ELSE params[k]]

\* `params = {"page_info": next_cursor, "limit": params["limit"]}`
NextPageParams_merge(params, cursor) ==
    [k \in DOMAIN params \cup {"page_info"} |->
        IF k = "page_info" THEN cursor ELSE params[k]]
NextPageParams(params, cursor) ==
    [k \in {"page_info", "limit"} |-> IF k = "page_info" THEN cursor ELSE params["limit"]]

\* `all_items.extend(items)`
ExtendItems_overwrite(all, items) == items
ExtendItems(all, items) == all \o items

\* `max_pages and page_count >= max_pages`
CapReached(max_pages, count) ==
    max_pages # None /\ max_pages[1] # 0 /\ count >= max_pages[1]

ReturnItems(items) == [kind |-> "return", items |-> items]

PaginateStart ==
    /\ pg_pc = "idle"
    /\ pg_params' = FirstParams(pg_params, pg_limit)
    /\ pg_pc' = "walking"
    /\ UNCHANGED <<pg_server, pg_max_pages, pg_limit, pg_all_items, pg_page_count,
                   pg_requests, pg_responses, pg_outcome, rateVars, reqVars, whVars, capVars, useVars, syncVars>>

\* One iteration of `while True`: admission, the GET, the page handled.
PaginatePage ==
    /\ pg_pc = "walking"
    /\ SoloAdmit
    /\ now' = SoloAdmitTime(call_timestamps, now)
    /\ pg_requests' = Append(pg_requests, pg_params)
    /\ LET page == ServerPage(pg_server, pg_params)
           all == ExtendItems(pg_all_items, page.items)
           next_cursor == ParseLinkHeader(page.link)
       IN  /\ pg_responses' = Append(pg_responses, page)
           /\ IF page.status # 200
              THEN /\ pg_pc' = "done"
                   /\ pg_outcome' = Some(ReturnItems(pg_all_items))
                   /\ UNCHANGED <<pg_all_items, pg_page_count, pg_params>>
              ELSE /\ pg_all_items' = all
                   /\ pg_page_count' = pg_page_count + 1
                   /\ IF next_cursor = None \/ CapReached(pg_max_pages, pg_page_count + 1)
                      THEN /\ pg_pc' = "done"
                           /\ pg_outcome' = Some(ReturnItems(all))
                           /\ UNCHANGED pg_params
                      ELSE /\ pg_params' = NextPageParams(pg_params, next_cursor[1])
                           /\ UNCHANGED <<pg_pc, pg_outcome>>
    /\ UNCHANGED <<pg_server, pg_max_pages, pg_limit, lockVars, reqVars, whVars, capVars, useVars, syncVars>>

InitPaginate ==
    /\ InitClock /\ InitLock /\ InitUseIdle /\ InitSyncIdle /\ InitReqIdle /\ InitWhIdle /\ InitCapIdle
    /\ \/ /\ pg_server \in Servers
          /\ pg_max_pages \in {None} \cup {Some(m) : m \in 0..MaxCap}
          /\ pg_limit \in Limits
          /\ pg_params \in UNION {[ks -> {"v"}] : ks \in SUBSET FilterKeys}
       \/ /\ pg_server = BigServer
          /\ pg_max_pages = None
          /\ pg_limit = PAGE_LIMIT
          /\ pg_params = [k \in {"status"} |-> "v"]
    /\ pg_pc = "idle" /\ pg_all_items = <<>> /\ pg_page_count = 0
    /\ pg_requests = <<>> /\ pg_responses = <<>> /\ pg_outcome = None

NextPaginate == PaginateStart \/ PaginatePage

SpecPaginate == InitPaginate /\ [][NextPaginate]_vars

\* A client performing one logical operation: a _request or a _paginate walk.
InitAttempts == InitRequest \/ InitPaginate
RequestOperation == rq_pc # "idle" /\ NextRequest
PaginateOperation == rq_pc = "idle" /\ NextPaginate
NextAttempts == RequestOperation \/ PaginateOperation
SpecAttempts == InitAttempts /\ [][NextAttempts]_vars

\* C20: each request sent by _request (retries included) and by _paginate
\* (every page) comes with an admission of its own, recorded no later than
\* the request is sent: the requests sent never outnumber the admissions.
C20_AdmissionBeforeEveryAttempt ==
    /\ sent + Len(pg_requests) <= Len(admitted)
    /\ Len(admitted) = sent + Len(pg_requests)
    /\ \A i \in DOMAIN admitted : admitted[i] <= now

\* a third attempt of _request after two retried failures, or a third page
C20_Witness ==
    \/ sent = MAX_RETRIES /\ Len(admitted) = MAX_RETRIES /\ Len(sleeps) >= 2
    \/ Len(pg_requests) = 3 /\ Len(admitted) = 3

\* a page carries a next cursor
HasNextCursor(page) ==
    \E i \in DOMAIN page.link :
        page.link[i].rel = "next" /\ page.link[i].page_info # None
NextCursorOf(page) ==
    (CHOOSE i \in DOMAIN page.link :
        page.link[i].rel = "next" /\ page.link[i].page_info # None)

\* C5: a non-200 response on any page surfaces an error to the caller; the
\* walk never returns the list collected so far as if it had succeeded.
C5_NoSwallowedError ==
    (pg_pc = "done" /\ \E i \in DOMAIN pg_responses : pg_responses[i].status # 200)
        => pg_outcome[1].kind = "raise"

\* C6: every request after the first carries exactly page_info and limit, the
\* limit of the first request, whatever filters the caller passed.
C6_CursorReplacesFilters ==
    \A i \in DOMAIN pg_requests :
        i > 1 => /\ DOMAIN pg_requests[i] = {"page_info", "limit"}
                 /\ pg_requests[i]["limit"] = pg_requests[1]["limit"]

\* a second request was sent by a caller that had passed filters
C6_Witness ==
    /\ Len(pg_requests) > 1
    /\ FilterKeys \subseteq DOMAIN pg_requests[1]
    /\ pg_pc = "done"

\* the concatenation of the item arrays of the pages 1..n of a server
RECURSIVE ConcatPages(_, _)
ConcatPages(srv, n) ==
    IF n = 0 THEN <<>> ELSE ConcatPages(srv, n - 1) \o srv[n].items

AllPagesOk(srv) ==
    /\ \A i \in DOMAIN srv : srv[i].status = 200
    /\ \A i \in DOMAIN srv : HasNextCursor(srv[i]) <=> i < Len(srv)

\* C7: with no page cap, a server of n good pages with a next cursor on all
\* but the last is walked in exactly n requests and the result is the
\* concatenation of its pages' items in page order.
C7_AllPagesConcatenated ==
    (pg_pc = "done" /\ pg_max_pages = None /\ AllPagesOk(pg_server)) =>
        /\ Len(pg_requests) = Len(pg_server)
        /\ pg_outcome = Some(ReturnItems(ConcatPages(pg_server, Len(pg_server))))

\* pages of 250, 250 and 17 items: 517 items via 3 requests
C7_Witness ==
    /\ pg_pc = "done" /\ pg_max_pages = None /\ pg_server = BigServer
    /\ Len(pg_requests) = 3
    /\ pg_outcome # None /\ Len(pg_outcome[1].items) = 517

\* the page cap is hit once k pages have been fetched
CapHit(k) == pg_max_pages # None /\ k >= pg_max_pages[1]
EndsWalk(i) == ~HasNextCursor(pg_responses[i]) \/ CapHit(i)

\* C8: the walk ends exactly at a page without a next cursor or at the page
\* cap: after a page that is neither, the next request is sent with the cursor
\* that page gave (also when it had no items), and after a page that is one of
\* them no request follows.
C8_EndsOnlyAtCursorOrCap ==
    \A i \in DOMAIN pg_responses :
        pg_responses[i].status = 200 =>
            /\ (i < Len(pg_responses) \/ pg_pc = "walking") => ~EndsWalk(i)
            /\ (i = Len(pg_responses) /\ pg_pc = "done") => EndsWalk(i)
            /\ i < Len(pg_responses) =>
                  pg_requests[i + 1]["page_info"]
                      = pg_responses[i].link[NextCursorOf(pg_responses[i])].page_info[1]

\* the largest number of page requests a capped walk may make
PageBudget == IF pg_max_pages[1] > 1 THEN pg_max_pages[1] ELSE 1

\* C31: with any max_pages other than None the walk sends at most
\* max(1, max_pages) page requests and returns the items of at most that many
\* pages; only None leaves the walk uncapped.
C31_PageCapForEveryValue ==
    pg_max_pages # None =>
        /\ Len(pg_requests) <= PageBudget
        /\ pg_page_count <= PageBudget
        /\ pg_outcome # None =>
               \E n \in 0..PageBudget : n <= Len(pg_server)
                   /\ pg_outcome[1].items = ConcatPages(pg_server, n)

(***************************************************************************)
(* Webhooks: verify_shopify_hmac, ShopifyWebhookHandler, receive_webhook   *)
(*                                                                         *)
(* HMAC-SHA256 is idealised as collision free: the digest of (key, data)   *)
(* is the pair itself.  A str is a record: its characters and whether all  *)
(* of them are ASCII.                                                      *)
(***************************************************************************)
Secrets == {"", "shpss_1", "shpss_2"}

\* raw request bodies: the bytes, and what decoding and json.loads make of them
RawBody(b, form, payload) == [bytes |-> b, form |-> form, payload |-> payload]
Bodies ==
    {RawBody("b1", "json", "p1"),         \* {"id":1}
     RawBody("b2", "json", "p1"),         \* { "id": 1 }: same payload, other bytes
     RawBody("b3", "json", "p2"),
     RawBody("b4", "json_not_object", "p3"),
     RawBody("b5", "not_json", ""),
     RawBody("b6", "not_utf8", "")}

Str(chars, ascii) == [chars |-> chars, ascii |-> ascii]
EmptyStr == Str(<<>>, TRUE)

\* hmac.new(secret.encode('utf-8'), data, hashlib.sha256).digest()
HmacSha256(secret, data) == <<"sha256", secret, data>>
\* base64.b64encode(digest).decode('utf-8')
B64Encode(digest) == Str(<<"b64", digest>>, TRUE)

HmacHeaders ==
    {EmptyStr, Str(<<"AAAA">>, TRUE), Str(<<"AAA", "e-acute">>, FALSE)}
    \cup {B64Encode(HmacSha256(s, b.bytes)) : s \in Secrets, b \in Bodies}

\* hmac.compare_digest(a, b) on str: TypeError unless both are ASCII
CompareDigest(a, b) ==
    IF ~(a.ascii /\ b.ascii) THEN "TypeError"
    ELSE IF a = b THEN "True" ELSE "False"

\* `if not secret: raise WebhookVerificationError("Missing API secret")`
SecretMissing_never(secret) == FALSE
SecretMissing(secret) == secret = ""

\* verify_shopify_hmac: "True", or the exception that leaves it
VerifyShopifyHmac(data, hmac_header, secret) ==
    IF hmac_header.chars = <<>> THEN "WebhookVerificationError"
    ELSE IF SecretMissing(secret) THEN "WebhookVerificationError"
    ELSE LET calculated_b64 == B64Encode(HmacSha256(secret, data))
             cmp == CompareDigest(calculated_b64, hmac_header)
         IN  CASE cmp = "True" -> "True"
               [] cmp = "False" -> "WebhookVerificationError"
               [] OTHER -> cmp

\* WebhookTopic values that create_default_webhook_handler registers
DefaultTopics == {"orders/create", "app/uninstalled"}
Topics == DefaultTopics \cup {"products/create"}

WebhookRequest(body, h, topic, shop) ==
    [body |-> body, hmac |-> h, topic |-> topic, shop_domain |-> shop]

HttpResult(code, detail) == [status |-> code, detail |-> detail]

\* receive_webhook up to the call of process_webhook: headers, body, the 400.
\* A request leaves nothing behind in the handler, so one request per run is
\* followed.
WebhookReceive ==
    /\ wh_pc = "idle"
    /\ \E body \in Bodies, h \in HmacHeaders, topic \in Topics \cup {""},
          shop \in {"", "shop.myshopify.com"} :
          /\ wh_req' = Some(WebhookRequest(body, h, topic, shop))
          /\ IF topic = "" \/ shop = ""
             THEN /\ wh_pc' = "done"
                  /\ wh_result' = Some(HttpResult(400, "Missing required Shopify headers"))
             ELSE /\ wh_pc' = "verify"
                  /\ wh_result' = None
    /\ wh_verdict' = None
    /\ wh_verified' = {}
    /\ wh_log' = <<>>
    /\ UNCHANGED <<wh_secret, wh_handlers, wh_default, rateVars, reqVars, pagVars, capVars, useVars, syncVars>>

\* verify_and_parse, first statement: verify_shopify_hmac(body, hmac_header, self.api_secret)
WebhookVerify ==
    /\ wh_pc = "verify"
    /\ LET req == wh_req[1]
           v == VerifyShopifyHmac(req.body.bytes, req.hmac, wh_secret)
       IN  /\ wh_verdict' = Some(v)
           /\ CASE v = "True" ->
                     /\ wh_verified' = wh_verified \cup {req.body.bytes}
                     /\ wh_pc' = "parse"
                     /\ UNCHANGED wh_result
                [] v = "WebhookVerificationError" ->
                     /\ wh_pc' = "done"
                     /\ wh_result' = Some(HttpResult(401, v))
                     /\ UNCHANGED wh_verified
                [] OTHER ->
                     /\ wh_pc' = "done"
                     /\ wh_result' = Some(HttpResult(500, v))
                     /\ UNCHANGED wh_verified
    /\ UNCHANGED <<wh_secret, wh_handlers, wh_default, wh_req, wh_log,
                   rateVars, reqVars, pagVars, capVars, useVars, syncVars>>

\* verify_and_parse, the rest: json.loads(body.decode('utf-8')), WebhookContext(...)
WebhookParse ==
    /\ wh_pc = "parse"
    /\ LET req == wh_req[1] IN
       /\ wh_log' = Append(wh_log, <<"json.loads", req.body.bytes>>)
       /\ CASE req.body.form = "json" ->
                 /\ wh_pc' = "dispatch"
                 /\ UNCHANGED wh_result
            [] req.body.form = "not_json" ->
                 /\ wh_pc' = "done"
                 /\ wh_result' = Some(HttpResult(401, "WebhookVerificationError"))
            [] req.body.form = "not_utf8" ->
                 /\ wh_pc' = "done"
                 /\ wh_result' = Some(HttpResult(500, "UnicodeDecodeError"))
            [] OTHER ->
                 /\ wh_pc' = "done"
                 /\ wh_result' = Some(HttpResult(500, "ValidationError"))
    /\ UNCHANGED <<wh_secret, wh_handlers, wh_default, wh_req, wh_verdict, wh_verified,
                   rateVars, reqVars, pagVars, capVars, useVars, syncVars>>

\* a dispatch that takes the first registered handler, whatever the topic
HandlerFor_first(topic) ==
    IF wh_handlers # {} THEN <<"handler", CHOOSE h \in wh_handlers : TRUE>>
    ELSE IF wh_default THEN <<"default_handler", topic>>
    ELSE <<>>

\* dispatch: the handler of ctx.topic, else the default handler, else nothing
HandlerFor(topic) ==
    IF topic \in wh_handlers THEN <<"handler", topic>>
    ELSE IF wh_default THEN <<"default_handler", topic>>
    ELSE <<>>

WebhookDispatch ==
    /\ wh_pc = "dispatch"
    /\ LET h == HandlerFor(wh_req[1].topic) IN
       /\ wh_log' = IF h = <<>> THEN wh_log ELSE Append(wh_log, h)
       /\ \E raised \in IF h = <<>> THEN {FALSE} ELSE BOOLEAN :
             wh_result' = IF raised THEN Some(HttpResult(500, "Exception"))
                          ELSE Some(HttpResult(200, "success"))
    /\ wh_pc' = "done"
    /\ UNCHANGED <<wh_secret, wh_handlers, wh_default, wh_req, wh_verdict, wh_verified,
                   rateVars, reqVars, pagVars, capVars, useVars, syncVars>>

\* get_webhook_handler: the secret is SHOPIFY_API_SECRET or "" when it is unset
InitWebhook ==
    /\ InitClock /\ InitLock /\ InitUseIdle /\ InitSyncIdle /\ InitReqIdle /\ InitPagIdle /\ InitCapIdle
    /\ wh_secret \in {"", "shpss_1"}
    /\ wh_handlers \in {{}, DefaultTopics}
    /\ wh_default \in BOOLEAN
    /\ wh_pc = "idle" /\ wh_req = None /\ wh_verdict = None
    /\ wh_verified = {} /\ wh_log = <<>> /\ wh_result = None

NextWebhook == WebhookReceive \/ WebhookVerify \/ WebhookParse \/ WebhookDispatch

SpecWebhook == InitWebhook /\ [][NextWebhook]_vars

\* the header is the base64 HMAC-SHA256 of exactly these bytes under the secret
SignatureMatches(req, secret) ==
    /\ req.hmac.chars # <<>>
    /\ secret # ""
    /\ req.hmac.chars = <<"b64", <<"sha256", secret, req.body.bytes>>>>

\* C9: verify_shopify_hmac returns True only for a non-empty header equal to
\* the base64 HMAC-SHA256 of the raw body under a non-empty secret, and in
\* every other case it raises WebhookVerificationError.
C9_VerifyTrueOrVerificationError ==
    wh_verdict # None =>
        IF SignatureMatches(wh_req[1], wh_secret)
        THEN wh_verdict[1] = "True"
        ELSE wh_verdict[1] = "WebhookVerificationError"

\* C10: the body is parsed, and a handler invoked, only after
\* verify_shopify_hmac returned True on the very bytes of this request, whose
\* header matches them under the secret; after a failed verification nothing
\* is parsed or invoked.
C10_FailsClosed ==
    /\ (wh_log # <<>> \/ wh_pc \in {"parse", "dispatch"}) =>
          /\ wh_verdict = Some("True")
          /\ wh_req[1].body.bytes \in wh_verified
          /\ SignatureMatches(wh_req[1], wh_secret)
    /\ (wh_verdict # None /\ wh_verdict # Some("True")) =>
          (wh_log = <<>> /\ wh_pc = "done" /\ wh_result[1].status # 200)

\* a correctly signed webhook reached its handler
C10_Witness ==
    /\ wh_pc = "done" /\ wh_result # None /\ wh_result[1].status = 200
    /\ Len(wh_log) = 2 /\ wh_log[2][1] = "handler"

\* the handlers invoked for the request, in order
Invoked == SelectSeq(wh_log, LAMBDA e : e[1] \in {"handler", "default_handler"})

\* dispatch has run for the request
Dispatched ==
    /\ wh_pc = "done" /\ wh_verdict = Some("True")
    /\ wh_req[1].body.form = "json"

\* C36: a webhook invokes at most one handler.  Once dispatch has run, the
\* handler invoked is the one registered for ctx.topic if there is one,
\* otherwise the default handler if one is set, otherwise none (and the
\* webhook is answered with success); a handler registered for another topic
\* is never invoked.
C36_OneHandlerOfTheTopic ==
    /\ Len(Invoked) <= 1
    /\ \A i \in 1..Len(Invoked) :
          Invoked[i][1] = "handler" =>
              Invoked[i][2] = wh_req[1].topic /\ wh_req[1].topic \in wh_handlers
    /\ Dispatched =>
          LET topic == wh_req[1].topic IN
          IF topic \in wh_handlers THEN Invoked = <<<<"handler", topic>>>>
          ELSE IF wh_default THEN Invoked = <<<<"default_handler", topic>>>>
          ELSE Invoked = <<>> /\ wh_result = Some(HttpResult(200, "success"))
    /\ ~Dispatched => Invoked = <<>>

\* a topic without a handler of its own was dispatched while handlers of other
\* topics were registered: the default handler took it
C36_Witness ==
    /\ Dispatched
    /\ wh_handlers # {} /\ wh_req[1].topic \notin wh_handlers
    /\ Invoked = <<<<"default_handler", wh_req[1].topic>>>>

(***************************************************************************)
(* ShopifyCapabilityChecker: the ten probes, check_all_capabilities,       *)
(* save_profile, load_profile, refresh_if_stale.                           *)
(*                                                                         *)
(* A probe talks to a server that gives one answer per endpoint for the    *)
(* duration of a check.  The wall clock advances in steps of HoursPerTick  *)
(* hours.                                                                  *)
(***************************************************************************)
HoursPerTick == 12   \* clock resolution of datetime.utcnow()
MaxUtc == 3          \* the wall clock stops advancing here

\* `max_age_hours: int = 24`
DEFAULT_MAX_AGE_HOURS == 24

\* logging levels of logger.debug and logger.warning
DEBUG == 10
WARNING == 30

ShopDomains == {"a.myshopify.com", "b.myshopify.com"}
API_VERSION == "2025-10"

\* the endpoints the probes call
Endpoints ==
    {"products/count", "products:create", "products:delete", "orders/count", "orders",
     "customers/count", "customers", "blogs", "locations", "fulfillments"}

\* every endpoint answers well (201 to the create, else 200) but those of es,
\* which answer a
AnswersExcept(es, a) ==
    [e \in Endpoints |->
        IF e \in es THEN a ELSE IF e = "products:create" THEN Http(201) ELSE Http(200)]

\* a token with every scope; an invalid token; a network that is down; one
\* endpoint refused for lack of its scope; the product count or the delete
\* failing on the server; a test product already gone; a token without
\* read_orders or without read_customers
AnswerTables ==
    {AnswersExcept({}, Http(200)), AnswersExcept(Endpoints, Http(401)),
     AnswersExcept(Endpoints, TimeoutException)}
    \cup {AnswersExcept({e}, Http(403)) : e \in Endpoints}
    \cup {AnswersExcept({"products/count"}, Http(500)),
          AnswersExcept({"products:delete"}, Http(500)),
          AnswersExcept({"products:delete"}, Http(404))}
    \cup {AnswersExcept(es, Http(403)) :
            es \in {{"orders/count", "orders", "fulfillments"}, {"customers/count", "customers"}}}

\* items: how many orders, customers, blogs and locations the store holds
ProbeServers ==
    {[answer |-> a, items |-> 1] : a \in AnswerTables}
    \cup {[answer |-> AnswersExcept({}, Http(200)), items |-> 0]}

\* _request against a server that gives the answer r to every attempt
RequestOutcome(r) ==
    IF r.kind # "http" THEN Exhausted(Some(TransportError(r, MAX_RETRIES - 1)))
    ELSE IF r.status \in {200, 201} THEN Return(JsonBody(1))
    ELSE IF r.status = 204 THEN Return(EmptyPayload)
    ELSE IF r.status = 429
         THEN IF RetryAfter(r) = None
              THEN Raise("ValueError", "could not convert string to float", None)
              ELSE Exhausted(None)
    ELSE IF r.status \in {401, 403, 404} THEN TerminalError(r)
    ELSE IF IsServerError(r.status) THEN Exhausted(None)
    ELSE TerminalError(r)

\* _paginate on a server that holds one page of n items and answers r: a
\* transport exception leaves the walk, a non-200 answer ends it with `break`
PaginateOutcome(r, n) ==
    IF r.kind # "http"
    THEN Raise(IF r.kind = "timeout" THEN "TimeoutException" ELSE "RequestError",
               "transport failure", None)
    ELSE IF r.status # 200 THEN Return(<<>>)
    ELSE Return(PageItems(1, n))

\* ShopifyCapability(name=..., scope=..., enabled=..., error=...)
Capability(name, scope, enabled, error, t) ==
    [name |-> name, scope |-> scope, enabled |-> enabled, error |-> error, checked_at |-> t]

LogRecord(level, probe, text) == [level |-> level, probe |-> probe, text |-> text]

\* what a probe leaves: its entry, the client calls it made, what it logged,
\* and the class of the exception it caught ("" when none)
ProbeResult(cap, calls, log, caught) ==
    [cap |-> cap, calls |-> calls, log |-> log, caught |-> caught]

\* the two except clauses of a probe: logger.debug under `except
\* ShopifyAuthError`, logger.warning under `except Exception`
ExceptLevel_debug(exc) == DEBUG
ExceptLevel(exc) == IF exc = "ShopifyAuthError" THEN DEBUG ELSE WARNING
ExceptText(exc) == IF exc = "ShopifyAuthError" THEN "auth error" ELSE "check failed"

\* the probe caught the exception o: `capability.error = str(e)`
Caught_no_reason(name, scope, o, calls, t) ==
    ProbeResult(Capability(name, scope, FALSE, None, t), calls,
                <<LogRecord(ExceptLevel(o.exc), name, ExceptText(o.exc))>>, o.exc)
Caught(name, scope, o, calls, t) ==
    ProbeResult(Capability(name, scope, FALSE, Some(o.msg), t), calls,
                <<LogRecord(ExceptLevel(o.exc), name, ExceptText(o.exc))>>, o.exc)

\* the probe reached `capability.enabled = True`
Passed(name, scope, text, calls, t) ==
    ProbeResult(Capability(name, scope, TRUE, None, t), calls,
                <<LogRecord(DEBUG, name, text)>>, "")

CheckProductRead(srv, t) ==
    LET o == RequestOutcome(srv.answer["products/count"])
        calls == <<"products/count">>
    IN  IF o.kind = "return"
        THEN Passed("product_read", "read_products", "enabled", calls, t)
        ELSE Caught("product_read", "read_products", o, calls, t)

\* create_product, then delete_product, then `capability.enabled = True`
CheckProductWrite(srv, t) ==
    LET created == RequestOutcome(srv.answer["products:create"])
        deleted == RequestOutcome(srv.answer["products:delete"])
    IN  IF created.kind # "return"
        THEN Caught("product_write", "write_products", created, <<"products:create">>, t)
        ELSE IF deleted.kind # "return"
        THEN Caught("product_write", "write_products", deleted,
                    <<"products:create", "products:delete">>, t)
        ELSE Passed("product_write", "write_products", "enabled",
                    <<"products:create", "products:delete">>, t)

CheckOrderRead(srv, t) ==
    LET o == RequestOutcome(srv.answer["orders/count"])
        calls == <<"orders/count">>
    IN  IF o.kind = "return"
        THEN Passed("order_read", "read_orders", "enabled", calls, t)
        ELSE Caught("order_read", "read_orders", o, calls, t)

\* get_orders(limit=1): enabled whether or not the list is empty
CheckOrderWrite(srv, t) ==
    LET o == PaginateOutcome(srv.answer["orders"], srv.items)
        calls == <<"orders">>
    IN  IF o.kind = "return"
        THEN Passed("order_write", "write_orders",
                    IF o.value # <<>> THEN "enabled (inferred from read access)"
                    ELSE "enabled (no orders to verify)", calls, t)
        ELSE Caught("order_write", "write_orders", o, calls, t)

CheckCustomerRead(srv, t) ==
    LET o == RequestOutcome(srv.answer["customers/count"])
        calls == <<"customers/count">>
    IN  IF o.kind = "return"
        THEN Passed("customer_read", "read_customers", "enabled", calls, t)
        ELSE Caught("customer_read", "read_customers", o, calls, t)

CheckCustomerWrite(srv, t) ==
    LET o == PaginateOutcome(srv.answer["customers"], srv.items)
        calls == <<"customers">>
    IN  IF o.kind = "return"
        THEN Passed("customer_write", "write_customers", "enabled (inferred)", calls, t)
        ELSE Caught("customer_write", "write_customers", o, calls, t)

CheckContentWrite(srv, t) ==
    LET o == RequestOutcome(srv.answer["blogs"])
        calls == <<"blogs">>
    IN  IF o.kind = "return"
        THEN Passed("content_write", "write_content",
                    IF srv.items > 0 THEN "enabled" ELSE "enabled (no blogs configured)",
                    calls, t)
        ELSE Caught("content_write", "write_content", o, calls, t)

CheckInventoryRead(srv, t) ==
    LET o == RequestOutcome(srv.answer["locations"])
        calls == <<"locations">>
    IN  IF o.kind = "return"
        THEN Passed("inventory_read", "read_inventory", "enabled", calls, t)
        ELSE Caught("inventory_read", "read_inventory", o, calls, t)

\* get_locations(): disabled with "No locations found" when the list is empty
CheckInventoryWrite(srv, t) ==
    LET o == RequestOutcome(srv.answer["locations"])
        calls == <<"locations">>
    IN  IF o.kind # "return"
        THEN Caught("inventory_write", "write_inventory", o, calls, t)
        ELSE IF srv.items > 0
        THEN Passed("inventory_write", "write_inventory", "enabled (inferred)", calls, t)
        ELSE ProbeResult(Capability("inventory_write", "write_inventory", FALSE,
                                    Some("No locations found"), t), calls, <<>>, "")

\* get_orders(limit=1), then get_fulfillments(orders[0].id) when there is an order
CheckFulfillmentWrite(srv, t) ==
    LET orders == PaginateOutcome(srv.answer["orders"], srv.items)
        fulfillments == RequestOutcome(srv.answer["fulfillments"])
    IN  IF orders.kind # "return"
        THEN Caught("fulfillment_write", "write_fulfillments", orders, <<"orders">>, t)
        ELSE IF orders.value = <<>>
        THEN Passed("fulfillment_write", "write_fulfillments", "enabled (no orders to verify)",
                    <<"orders">>, t)
        ELSE IF fulfillments.kind # "return"
        THEN Caught("fulfillment_write", "write_fulfillments", fulfillments,
                    <<"orders", "fulfillments">>, t)
        ELSE Passed("fulfillment_write", "write_fulfillments", "enabled",
                    <<"orders", "fulfillments">>, t)

\* _determine_browser_requirements
NeedsBrowser ==
    <<"theme_edit", "reviews", "checkout_customization", "app_management", "store_settings">>

RECURSIVE Flatten(_)
Flatten(ss) == IF ss = <<>> THEN <<>> ELSE Head(ss) \o Flatten(Tail(ss))

\* the probes in the order check_all_capabilities runs them
RunProbes_reordered(srv, t) ==
    <<CheckProductWrite(srv, t), CheckProductRead(srv, t), CheckOrderRead(srv, t),
      CheckOrderWrite(srv, t), CheckCustomerRead(srv, t), CheckCustomerWrite(srv, t),
      CheckContentWrite(srv, t), CheckInventoryRead(srv, t), CheckInventoryWrite(srv, t),
      CheckFulfillmentWrite(srv, t)>>
RunProbes(srv, t) ==
    <<CheckProductRead(srv, t), CheckProductWrite(srv, t), CheckOrderRead(srv, t),
      CheckOrderWrite(srv, t), CheckCustomerRead(srv, t), CheckCustomerWrite(srv, t),
      CheckContentWrite(srv, t), CheckInventoryRead(srv, t), CheckInventoryWrite(srv, t),
      CheckFulfillmentWrite(srv, t)>>

\* ShopifyCapabilityProfile as check_all_capabilities fills it
CapabilityProfile(tenant_id, shop_domain, r, t) ==
    [tenant_id |-> tenant_id, shop_domain |-> shop_domain, api_version |-> API_VERSION,
     product_read |-> r[1].cap.enabled, product_write |-> r[2].cap.enabled,
     order_read |-> r[3].cap.enabled, order_write |-> r[4].cap.enabled,
     customer_read |-> r[5].cap.enabled, customer_write |-> r[6].cap.enabled,
     content_write |-> r[7].cap.enabled, inventory_read |-> r[8].cap.enabled,
     inventory_write |-> r[9].cap.enabled, fulfillment_write |-> r[10].cap.enabled,
     capabilities |-> [i \in DOMAIN r |-> r[i].cap],
     needs_browser |-> NeedsBrowser,
     checked_at |-> t]

\* check_all_capabilities: the profile, and what probing did (history)
CheckAllCapabilities(tenant_id, shop_domain, srv, t) ==
    LET r == RunProbes(srv, t)
    IN  [profile |-> CapabilityProfile(tenant_id, shop_domain, r, t),
         probe |-> [srv |-> srv,
                    calls |-> Flatten([i \in DOMAIN r |-> r[i].calls]),
                    log |-> Flatten([i \in DOMAIN r |-> r[i].log]),
                    caught |-> [i \in DOMAIN r |-> r[i].caught]]]

\* datetime.isoformat() and its parse by the model's datetime fields
IsoFormat(t) == <<"iso", t>>
ParseDatetime(s) == s[2]

\* profile.model_dump() written by json.dump(..., default=serialize)
ModelDump(profile) ==
    LET caps == profile.capabilities
    IN  [profile EXCEPT
           !.checked_at = IsoFormat(profile.checked_at),
           !.capabilities = [i \in DOMAIN caps |->
                                [caps[i] EXCEPT !.checked_at = IsoFormat(caps[i].checked_at)]]]

\* ShopifyCapabilityProfile(**data)
ProfileOfData(data) ==
    LET caps == data.capabilities
    IN  [data EXCEPT
           !.checked_at = ParseDatetime(data.checked_at),
           !.capabilities = [i \in DOMAIN caps |->
                                [caps[i] EXCEPT !.checked_at = ParseDatetime(caps[i].checked_at)]]]

\* what a file holds: a JSON document, or bytes json.load fails on
JsonFile(data) == [form |-> "json", data |-> Some(data)]
GarbageFile == [form |-> "garbage", data |-> None]

\* `with open(file_path, "w") as f: json.dump(data, f, ...)`
WriteFile_keep_existing(old, data) == IF old = None THEN Some(JsonFile(data)) ELSE old
WriteFile(old, data) == Some(JsonFile(data))

\* save_profile: the files afterwards
SaveProfile(files, tenant_id, profile) ==
    LET file_path == GetProfilePath(tenant_id)
    IN  [files EXCEPT ![file_path] = WriteFile(files[file_path], ModelDump(profile))]

\* load_profile: None when the file is missing or cannot be loaded
LoadProfile(files, tenant_id) ==
    LET file_path == GetProfilePath(tenant_id)
    IN  IF files[file_path] = None THEN None
        ELSE IF files[file_path][1].form # "json" THEN None
        ELSE Some(ProfileOfData(files[file_path][1].data[1]))

\* `age_hours = age.total_seconds() / 3600`
AgeHours(checked_at, t) == (t - checked_at) * HoursPerTick

\* `if age_hours < max_age_hours`
IsFresh_never(age_hours, max_age_hours) == FALSE
IsFresh(age_hours, max_age_hours) == age_hours < max_age_hours

\* the record of an operation: the earlier operation was a refresh_if_stale
\* that returned the cached profile, and this one returned the same value
Operation(op, tenant_id, shop_domain, max_age_hours, found, returned, probe, wrote) ==
    [op |-> op, tenant_id |-> tenant_id, shop_domain |-> shop_domain,
     max_age_hours |-> max_age_hours, at |-> utcnow,
     found |-> IF found = None THEN None ELSE Some(found[1].checked_at),
     returned |-> returned, probe |-> probe, wrote |-> wrote,
     prev_cached |-> cap_last.op = "refresh_if_stale" /\ cap_last.probe = None,
     same_as_prev |-> returned = cap_last.returned]

\* a call of load_profile by a checker of the tenant's store
LoadProfileCall(tenant_id, shop_domain) ==
    /\ cap_last' = Operation("load_profile", tenant_id, shop_domain, 0,
                             LoadProfile(cap_files, tenant_id),
                             LoadProfile(cap_files, tenant_id), None, FALSE)
    /\ UNCHANGED <<utcnow, cap_files, rateVars, reqVars, pagVars, whVars, useVars, syncVars>>

\* refresh_if_stale
RefreshIfStale(tenant_id, shop_domain, max_age_hours) ==
    LET profile == LoadProfile(cap_files, tenant_id)
    IN  IF profile # None /\ IsFresh(AgeHours(profile[1].checked_at, utcnow), max_age_hours)
        THEN /\ cap_last' = Operation("refresh_if_stale", tenant_id, shop_domain,
                                      max_age_hours, profile, profile, None, FALSE)
             /\ UNCHANGED <<utcnow, cap_files, rateVars, reqVars, pagVars, whVars, useVars, syncVars>>
        ELSE \E srv \in ProbeServers :
               LET checked == CheckAllCapabilities(tenant_id, shop_domain, srv, utcnow)
               IN  /\ cap_files' = SaveProfile(cap_files, tenant_id, checked.profile)
                   /\ cap_last' = Operation("refresh_if_stale", tenant_id, shop_domain,
                                            max_age_hours, profile, Some(checked.profile),
                                            Some(checked.probe), TRUE)
                   /\ UNCHANGED <<utcnow, rateVars, reqVars, pagVars, whVars, useVars, syncVars>>

\* the wall clock advances
UtcTick ==
    /\ utcnow < MaxUtc
    /\ utcnow' = utcnow + 1
    /\ UNCHANGED <<cap_files, cap_last, rateVars, reqVars, pagVars, whVars, useVars, syncVars>>

\* the tenant directory holds no profile, or a file that cannot be loaded
InitCapability ==
    /\ InitClock /\ InitLock /\ InitUseIdle /\ InitSyncIdle /\ InitReqIdle /\ InitPagIdle /\ InitWhIdle
    /\ utcnow = 0
    /\ cap_files \in [ProfilePaths -> {None, Some(GarbageFile)}]
    /\ cap_last = NoOperation

NextCapability ==
    \/ \E tenant_id \in Tenants, shop_domain \in ShopDomains :
          LoadProfileCall(tenant_id, shop_domain)
    \/ \E tenant_id \in Tenants, shop_domain \in ShopDomains, max_age_hours \in {DEFAULT_MAX_AGE_HOURS} :
          RefreshIfStale(tenant_id, shop_domain, max_age_hours)
    \/ UtcTick

SpecCapability == InitCapability /\ [][NextCapability]_vars

\* the last operation ran the probes; its server, profile and history
Probed == cap_last.probe # None
ProbedServer == cap_last.probe[1].srv
ProbedProfile == cap_last.returned[1]
ProbedLog == cap_last.probe[1].log
ProbedCalls == cap_last.probe[1].calls
EntryOf(name) ==
    ProbedProfile.capabilities[CHOOSE i \in DOMAIN ProbedProfile.capabilities :
                                  ProbedProfile.capabilities[i].name = name]
Succeeds(r) == r.kind = "http" /\ r.status \in {200, 201, 204}
Rejected(r) == r.kind = "http" /\ r.status \in {401, 403}
LogsOf(name) == {ProbedLog[i] : i \in {j \in DOMAIN ProbedLog : ProbedLog[j].probe = name}}

\* C11: in the product_write probe delete_product is called right after every
\* successful create_product, and when the create succeeds but the delete
\* fails the profile still reports product_write enabled and the log holds a
\* warning of its own about the undeleted test product.
C11_DeleteFailureStillEnabled ==
    (Probed /\ Succeeds(ProbedServer.answer["products:create"])) =>
        /\ \E i \in DOMAIN ProbedCalls :
              /\ ProbedCalls[i] = "products:create"
              /\ i < Len(ProbedCalls) /\ ProbedCalls[i + 1] = "products:delete"
        /\ ~Succeeds(ProbedServer.answer["products:delete"]) =>
              /\ ProbedProfile.product_write
              /\ EntryOf("product_write").enabled
              /\ \E l \in LogsOf("product_write") :
                    l.level >= WARNING /\ l.text \notin {"check failed", "auth error"}

\* C12: order_write and customer_write are enabled exactly when the read of
\* the resource succeeds; when the server answers that read with 401 or 403
\* the capability is disabled and carries the error message as its reason.
C12_InferredWriteIffReadSucceeds ==
    Probed =>
        /\ ProbedProfile.order_write <=> Succeeds(ProbedServer.answer["orders"])
        /\ ProbedProfile.customer_write <=> Succeeds(ProbedServer.answer["customers"])
        /\ \A w \in {<<"order_write", "orders">>, <<"customer_write", "customers">>} :
              Rejected(ProbedServer.answer[w[2]]) =>
                  (~EntryOf(w[1]).enabled /\ EntryOf(w[1]).error # None)

\* the messages of the errors _request classifies as ShopifyAuthError
AuthMessages == {TerminalError(Http(401)).msg, TerminalError(Http(403)).msg}

\* C13: a probe that caught a ShopifyAuthError leaves its entry disabled with
\* the message of that auth error and logs it at DEBUG; a probe that caught
\* any other exception leaves its entry disabled with a message that is none
\* of the auth messages and logs it at WARNING, a higher severity.
C13_AuthDistinctFromUnexpected ==
    Probed =>
        \A i \in DOMAIN ProbedProfile.capabilities :
            LET exc == cap_last.probe[1].caught[i]
                entry == ProbedProfile.capabilities[i]
            IN  /\ exc = "ShopifyAuthError" =>
                      /\ ~entry.enabled
                      /\ entry.error # None /\ entry.error[1] \in AuthMessages
                      /\ LogsOf(entry.name) # {}
                      /\ \A l \in LogsOf(entry.name) : l.level = DEBUG
                /\ exc \notin {"", "ShopifyAuthError"} =>
                      /\ ~entry.enabled
                      /\ entry.error # None /\ entry.error[1] \notin AuthMessages
                      /\ LogsOf(entry.name) # {}
                      /\ \A l \in LogsOf(entry.name) : l.level = WARNING /\ l.level > DEBUG

\* a token without read_products: product_read is disabled by the auth error,
\* while in the same profile nothing else failed
C13_Witness ==
    /\ Probed
    /\ ProbedServer.answer["products/count"] = Http(403)
    /\ cap_last.probe[1].caught[1] = "ShopifyAuthError"
    /\ ~ProbedProfile.product_read
    /\ EntryOf("product_read").error = Some("Access forbidden")

\* the stored profile the operation found was younger than max_age_hours
Young ==
    /\ cap_last.found # None
    /\ (cap_last.at - cap_last.found[1]) * HoursPerTick < cap_last.max_age_hours

\* C14: a refresh_if_stale call that finds a stored profile younger than
\* max_age_hours probes nothing, calls no endpoint, writes no file and returns
\* the stored profile with its checked_at; two such calls in a row return
\* identical profiles.
C14_FreshProfileReturnedUntouched ==
    (cap_last.op = "refresh_if_stale" /\ Young) =>
        /\ cap_last.probe = None
        /\ ~cap_last.wrote
        /\ cap_last.returned # None
        /\ cap_last.returned = LoadProfile(cap_files, cap_last.tenant_id)
        /\ cap_last.returned[1].checked_at = cap_last.found[1]
        /\ cap_last.prev_cached => cap_last.same_as_prev

\* two refresh_if_stale calls in a row within the window, the clock having
\* advanced since the profile was stored
C14_Witness ==
    /\ cap_last.op = "refresh_if_stale" /\ Young
    /\ cap_last.prev_cached /\ cap_last.same_as_prev
    /\ cap_last.at > cap_last.found[1]
    /\ cap_last.max_age_hours = DEFAULT_MAX_AGE_HOURS

\* C15: a refresh_if_stale call that finds no readable profile, or one whose
\* age has reached max_age_hours, runs all ten probes, returns their profile
\* with checked_at the time of the call, and leaves in the file exactly the
\* dump of that profile, which depends on nothing but this check.
C15_StaleProfileReprobedAndOverwritten ==
    (cap_last.op = "refresh_if_stale" /\ ~Young) =>
        /\ Probed
        /\ Len(ProbedProfile.capabilities) = 10
        /\ ProbedCalls # <<>>
        /\ ProbedProfile.checked_at = cap_last.at
        /\ cap_last.found # None => ProbedProfile.checked_at > cap_last.found[1]
        /\ cap_last.wrote
        /\ cap_files[GetProfilePath(cap_last.tenant_id)] = Some(JsonFile(ModelDump(ProbedProfile)))
        /\ LoadProfile(cap_files, cap_last.tenant_id) = cap_last.returned
        /\ ProbedProfile = CheckAllCapabilities(cap_last.tenant_id, cap_last.shop_domain,
                                                ProbedServer, cap_last.at).profile

\* a stored profile that had reached the threshold was replaced by the
\* profile of a store whose token has meanwhile become invalid
C15_Witness ==
    /\ cap_last.op = "refresh_if_stale" /\ cap_last.found # None /\ ~Young
    /\ Probed /\ ProbedServer.answer["products/count"] = Http(401)
    /\ cap_last.wrote

\* C16: load_profile and refresh_if_stale called by the checker of a store
\* return only profiles whose shop_domain is that store's.
C16_ProfileOfOwnStore ==
    (cap_last.op \in {"load_profile", "refresh_if_stale"} /\ cap_last.returned # None) =>
        cap_last.returned[1].shop_domain = cap_last.shop_domain

\* the capabilities that are enabled on the strength of a read
InferredNames == {"order_write", "customer_write"}

\* what a stored entry says about how it was established: everything but the
\* identity of the capability
Evidence(entry) == [f \in DOMAIN entry \ {"name", "scope"} |-> entry[f]]

\* the entries of the profiles stored under business_memory
StoredEntries ==
    UNION {Range(cap_files[path][1].data[1].capabilities) :
              path \in {q \in ProfilePaths :
                            cap_files[q] # None /\ cap_files[q][1].form = "json"}}

\* C32: in every saved profile an enabled order_write or customer_write entry
\* carries a label that it was inferred: what it records, its name and scope
\* aside, differs from what a directly verified enabled entry records.
C32_InferredLabelStored ==
    \A e \in StoredEntries : \A v \in StoredEntries :
        (e.name \in InferredNames /\ e.enabled /\ v.name \notin InferredNames /\ v.enabled)
            => Evidence(e) # Evidence(v)

ProbeNames ==
    <<"product_read", "product_write", "order_read", "order_write", "customer_read",
      "customer_write", "content_write", "inventory_read", "inventory_write",
      "fulfillment_write">>

\* C33: whatever the earlier probes found, check_all_capabilities runs the ten
\* probes in the fixed order: the profile lists one entry per probe name in
\* that order, the log records of the probes follow that order, and each flag
\* of the profile equals the enabled value of its entry.
C33_AllProbesInOrder ==
    Probed =>
        /\ [i \in DOMAIN ProbedProfile.capabilities |-> ProbedProfile.capabilities[i].name]
              = ProbeNames
        /\ \A i \in DOMAIN ProbeNames :
              ProbedProfile[ProbeNames[i]] = ProbedProfile.capabilities[i].enabled
        /\ DOMAIN cap_last.probe[1].caught = DOMAIN ProbeNames
        /\ [i \in DOMAIN ProbedLog |-> ProbedLog[i].probe]
              \in {s \in [DOMAIN ProbedLog -> Range(ProbeNames)] :
                      \A i, j \in DOMAIN ProbedLog :
                          i <= j => \E a, b \in DOMAIN ProbeNames :
                                       a <= b /\ s[i] = ProbeNames[a] /\ s[j] = ProbeNames[b]}

\* the first probe failed and the last one still ran and passed
C33_Witness ==
    /\ Probed
    /\ ~ProbedProfile.product_read /\ cap_last.probe[1].caught[1] # ""
    /\ ProbedProfile.fulfillment_write

\* C35: every entry a probe produces is either enabled without an error or
\* disabled with one: enabled holds exactly when error is None.
C35_EnabledIffNoError ==
    Probed =>
        \A i \in DOMAIN ProbedProfile.capabilities :
            ProbedProfile.capabilities[i].enabled
                <=> (ProbedProfile.capabilities[i].error = None)

\* a store without locations: inventory_write is disabled by the probe's own
\* reason although no call failed, next to entries that are enabled
C35_Witness ==
    /\ Probed
    /\ ~EntryOf("inventory_write").enabled
    /\ EntryOf("inventory_write").error = Some("No locations found")
    /\ EntryOf("inventory_read").enabled
    /\ \A i \in DOMAIN cap_last.probe[1].caught : cap_last.probe[1].caught[i] = ""

(***************************************************************************)
(* Uses of a client: `async with ShopifyAdminClient(...) as client:` and   *)
(* the handlers that create a client, call it and close it by hand         *)
(* (generate_seo_topics, generate_seo_blog).  A use makes calls; a call    *)
(* returns, raises or is cancelled.                                        *)
(***************************************************************************)
MaxUses == 3       \* uses one after another
MaxUseCalls == 2   \* calls within one use

Styles == {"with", "manual"}
CallResults == {"returned", "raised", "cancelled"}

\* _get_client: `if self._client is None or self._client.is_closed:` create one
GetClient(p) == IF p = "none" THEN "open" ELSE p

\* close(): `if self._client and not self._client.is_closed:` aclose() and
\* `self._client = None`
Close(p) == IF p = "open" THEN "none" ELSE p

\* what runs when an exception leaves the body: __aexit__ calls close();
\* the handlers have no finally clause, `await client.close()` is skipped
OnException(style, p) == IF style = "with" THEN Close(p) ELSE p

UseRecord(style, how, p, n) == [style |-> style, exit |-> how, pool |-> p, calls |-> n]

\* ShopifyAdminClient(...): __init__ sets `self._client = None`
UseCreate(style) ==
    /\ use_pc \in {"idle", "done"}
    /\ Len(use_log) < MaxUses
    /\ use_pc' = "body" /\ use_style' = style
    /\ pool' = "none" /\ use_calls' = 0
    /\ UNCHANGED <<use_log, rateVars, reqVars, pagVars, whVars, capVars, syncVars>>

\* one call of a client method: _request gets the pool first (line 235)
UseCall(res) ==
    /\ use_pc = "body"
    /\ use_calls < MaxUseCalls
    /\ use_calls' = use_calls + 1
    /\ IF res = "returned"
       THEN /\ pool' = GetClient(pool)
            /\ UNCHANGED <<use_pc, use_log>>
       ELSE /\ pool' = OnException(use_style, GetClient(pool))
            /\ use_pc' = "done"
            /\ use_log' = Append(use_log, UseRecord(use_style, res, pool', use_calls'))
    /\ UNCHANGED <<use_style, rateVars, reqVars, pagVars, whVars, capVars, syncVars>>

\* the body ends normally: __aexit__ or the handler's `await client.close()`;
\* the handlers make their call before they close
UseEnd ==
    /\ use_pc = "body"
    /\ use_style = "manual" => use_calls > 0
    /\ pool' = Close(pool)
    /\ use_pc' = "done"
    /\ use_log' = Append(use_log, UseRecord(use_style, "success", pool', use_calls))
    /\ UNCHANGED <<use_style, use_calls, rateVars, reqVars, pagVars, whVars, capVars, syncVars>>

InitUse == InitRate

NextUse ==
    \/ \E style \in Styles : UseCreate(style)
    \/ \E res \in CallResults : UseCall(res)
    \/ UseEnd

SpecUse == InitUse /\ [][NextUse]_vars

\* C28: every use of a client that made calls, whether through `async with`
\* or by a handler that closes by hand, and whether it ended by success, by
\* an error or by cancellation, left _client closed and reset to None.
C28_PoolReleasedOnEveryExit ==
    \A i \in 1..Len(use_log) : use_log[i].calls > 0 => use_log[i].pool = "none"

(***************************************************************************)
(* ShopifyService: sync_products, sync_orders, sync_customers.             *)
(*                                                                         *)
(* The store answers the fetch of a sync as it answers a probe: one page   *)
(* of items and one answer.  Every upsert, the commit and the rollback     *)
(* either return or raise.                                                 *)
(***************************************************************************)
MaxSyncItems == 3     \* items the store holds, at most

SyncTypes == {"products", "orders", "customers"}

\* max_products, max_orders, max_customers: None, or a number
SyncMaxes == {None} \cup {Some(k) : k \in 0..(MaxSyncItems - 1)}

\* what the store gives to the fetch
SyncAnswers == {Http(200), Http(401), Http(500), TimeoutException}

\* `# Default to 10 pages`
DEFAULT_SYNC_PAGES == 10

\* `max_pages = (max // 250) + 1 if max else None` (products), `... else 10`
\* (orders, customers); 0 is falsy
SyncMaxPages(sync_type, max) ==
    IF max # None /\ max[1] # 0 THEN Some((max[1] \div PAGE_LIMIT) + 1)
    ELSE IF sync_type = "products" THEN None
    ELSE Some(DEFAULT_SYNC_PAGES)

\* `if max: items = items[:max]`
SyncTruncate(items, max) ==
    IF max # None /\ max[1] # 0
    THEN SubSeq(items, 1, Min({max[1], Len(items)}))
    ELSE items

\* a sync that reports COMPLETED whatever failed
SyncStatusOf_completed(failed_count) == "completed"

\* `SyncStatus.COMPLETED if failed_count == 0 else SyncStatus.PARTIAL`
SyncStatusOf(failed_count) ==
    IF failed_count = 0 THEN "completed" ELSE "partial"

Count(s, b) == Cardinality({i \in 1..Len(s) : s[i] = b})

\* `except Exception as e:` of the sync: FAILED, one more error, completed_at,
\* db.rollback(); an exception of the rollback leaves the call
SyncFailed(result) ==
    /\ sy_result' = [result EXCEPT !.status = "failed", !.errors = @ + 1,
                                   !.completed = TRUE]
    /\ sy_pc' = "done"
    /\ \E rolled \in BOOLEAN :
          IF rolled THEN sy_session' = "rolled_back" /\ sy_returned' = "result"
          ELSE sy_session' = "broken" /\ sy_returned' = "raised"

\* sync_*, up to the item loop: the result object, max_pages, the fetch, the
\* truncation
SyncStart(sync_type, max, r, n) ==
    /\ sy_pc = "idle"
    /\ sy_call' = Some([sync_type |-> sync_type, max |-> max,
                        max_pages |-> SyncMaxPages(sync_type, max)])
    /\ sy_upserts' = <<>>
    /\ sy_commit' = "none"
    /\ LET result == SyncResult(sync_type, "in_progress")
           fetched == PaginateOutcome(r, n)
       IN  IF fetched.kind = "return"
           THEN /\ sy_raw' = Some(fetched.value)
                /\ sy_items' = SyncTruncate(fetched.value, max)
                /\ sy_result' = result
                /\ sy_pc' = "items"
                /\ UNCHANGED <<sy_session, sy_returned>>
           ELSE /\ sy_raw' = None
                /\ sy_items' = <<>>
                /\ SyncFailed(result)
    /\ UNCHANGED <<rateVars, reqVars, pagVars, whVars, capVars, useVars>>

\* one turn of `for item in items:`: _upsert_* returns, or raises and the
\* error is recorded
SyncUpsert ==
    /\ sy_pc = "items"
    /\ Len(sy_upserts) < Len(sy_items)
    /\ \E ok \in BOOLEAN :
          /\ sy_upserts' = Append(sy_upserts, ok)
          /\ sy_result' = IF ok THEN sy_result
                          ELSE [sy_result EXCEPT !.errors = @ + 1]
    /\ UNCHANGED <<sy_pc, sy_call, sy_raw, sy_items, sy_commit, sy_session, sy_returned,
                   rateVars, reqVars, pagVars, whVars, capVars, useVars>>

\* after the loop: db.commit(), then the status and the counts, or the
\* `except Exception` of the sync; `return result`
SyncCommit ==
    /\ sy_pc = "items"
    /\ Len(sy_upserts) = Len(sy_items)
    /\ \E ok \in BOOLEAN :
          IF ok
          THEN /\ sy_commit' = "ok"
               /\ sy_session' = "committed"
               /\ sy_result' = [sy_result EXCEPT
                                  !.status = SyncStatusOf(Count(sy_upserts, FALSE)),
                                  !.items_synced = Count(sy_upserts, TRUE),
                                  !.items_failed = Count(sy_upserts, FALSE),
                                  !.completed = TRUE]
               /\ sy_pc' = "done"
               /\ sy_returned' = "result"
          ELSE /\ sy_commit' = "raised"
               /\ SyncFailed(sy_result)
    /\ UNCHANGED <<sy_call, sy_raw, sy_items, sy_upserts,
                   rateVars, reqVars, pagVars, whVars, capVars, useVars>>

InitSync == InitRate

NextSync ==
    \/ \E sync_type \in SyncTypes, max \in SyncMaxes, r \in SyncAnswers,
          n \in 0..MaxSyncItems : SyncStart(sync_type, max, r, n)
    \/ SyncUpsert
    \/ SyncCommit

SpecSync == InitSync /\ [][NextSync]_vars

\* the fetch of the sync returned a list
FetchSucceeded == sy_raw # None
\* every item of the truncated list went through _upsert_* without an exception
AllUpserted ==
    Len(sy_upserts) = Len(sy_items) /\ \A i \in 1..Len(sy_upserts) : sy_upserts[i]
\* the upsert of at least one item raised
SomeItemFailed == \E i \in 1..Len(sy_upserts) : ~sy_upserts[i]

\* the length of the fetched list once cut to the max (None and 0: no max)
FetchedAfterTruncation ==
    LET n == Len(sy_raw[1])
        max == sy_call[1].max
    IN  IF max = None \/ max[1] = 0 THEN n
        ELSE IF max[1] < n THEN max[1] ELSE n

====
